---- MODULE Spec2Model ----
(***************************************************************************)
(* NeighborAEV (torchani/neighboraev.py): the radial and angular atomic    *)
(* environment vectors computed through a neighbor list shared by all the  *)
(* conformations of a batch.                                               *)
(*                                                                         *)
(* Numbers.  Atoms sit on the integer points of the x axis (coordinates    *)
(* are 3-vectors <<x, 0, 0>>), so every distance is an integer and, with   *)
(* the constants chosen below, every quantity of the two symmetry          *)
(* functions is a rational with a fixed denominator.  Each value is kept   *)
(* as the integer numerator over that denominator:                         *)
(*   cutoff_cosine      in quarters            (0.5*cos + 0.5, times 4)    *)
(*   exp(-eta*x^2)      in 2^-ExpBits, eta a multiple of ln 2              *)
(*   (1+cos(a - s))/2   in thousandths, s in {0, pi}                       *)
(* so that an entry of a radial sub-AEV is in units of 2^-(ExpBits+4) (the *)
(* 0.25 of line 56 is in the unit) and an entry of an angular sub-AEV in   *)
(* units of 2^-(ExpBits+4) / 1000^zeta.  The IEEE not-a-number produced by *)
(* 0/0 on line 108 is the value NaN, which every operation propagates.     *)
(* Rounding of floating point sums is not modelled: sums are exact.        *)
(***************************************************************************)
EXTENDS Integers, Sequences, FiniteSets, TLC

\* ---------------------------------------------------------------- bounds
MaxAtoms == 3
MaxConf == 2
NumCalls == 2

MaxPairs == 2

Calls == 1..NumCalls

\* ------------------------------------------------------------ the engine
\* What AEVComputer.__init__ binds: the species vocabulary and the constants.
\* EtaR and EtaA are in units of ln 2, ShfZ in units of pi.
Engine ==
  [species   |-> <<"H", "C">>,
   constants |-> [Rcr |-> 3, Rca |-> 2,
                  EtaR |-> <<1>>, ShfR |-> <<1, 2>>,
                  EtaA |-> <<4>>, Zeta |-> <<1>>, ShfA |-> <<1>>, ShfZ |-> <<0, 1>>]]

\* Species labels a caller may pass: the vocabulary and one label outside it.
Labels == {"H", "C", "X"}

\* Lattice positions: up to one step beyond the larger cutoff.
Positions == 0..(Engine.constants.Rcr + 1)

VARIABLES
  self,               \* the engine instance: [species, constants]
  pc,                 \* per call: "idle", "start", "selectors", "radial", "angular", "done", "raised"
  coordinates,        \* per call: the argument, (conformations, atoms, 3)
  species,            \* per call: the argument, a sequence of labels
  R_distances,        \* per call: local of line 143
  in_Rcr,             \* per call: local of lines 153-156
  in_Rca,             \* per call: local of lines 157-160
  species_neighbors,  \* per call: local of lines 166-180
  radial_aevs,        \* per call: local of lines 183-205
  radial_indices,     \* per call: the `indices` of line 191, per atom and vocabulary position
  angular_aevs,       \* per call: local of lines 208-243
  neighbor_pairs,     \* per call: the pairs behind `neighbors` of lines 224-230, per atom and block
  result,             \* per call: what __call__ returned, <<>> before
  sub                 \* the last direct call of radial_subaev or angular_subaev

vars == <<self, pc, coordinates, species, R_distances, in_Rcr, in_Rca,
          species_neighbors, radial_aevs, radial_indices, angular_aevs,
          neighbor_pairs, result, sub>>

\* ------------------------------------------------------------ arithmetic
NaN == -1

\* A sequence given as a function over 1..n, evaluated once: its elements are
\* computed here and not again at every later use.
tensor(f) == f \o <<>>

Mul(a, b) == IF a = NaN \/ b = NaN THEN NaN ELSE a * b

Add(a, b) == IF a = NaN \/ b = NaN THEN NaN ELSE a + b

\* torch.sum over the list axis, left to right.
\* Faulty variant of SumSeq: only the last term is kept.
SumSeq_last(s) == IF s = <<>> THEN 0 ELSE s[Len(s)]

RECURSIVE SumSeq(_)
SumSeq(s) == IF s = <<>> THEN 0 ELSE Add(Head(s), SumSeq(Tail(s)))

\* torch.sqrt on the values that occur: perfect squares.
RECURSIVE SqrtFrom(_, _)
SqrtFrom(n, r) == IF r * r >= n THEN r ELSE SqrtFrom(n, r + 1)

Sqrt(n) == SqrtFrom(n, 0)

Sub(a, b) == <<a[1] - b[1], a[2] - b[2], a[3] - b[3]>>

Dot(a, b) == a[1] * b[1] + a[2] * b[2] + a[3] * b[3]

Norm(v) == Sqrt(Dot(v, v))

ExpBits == 9

\* exp(-k ln 2) = 2^-k in units of 2^-ExpBits; smaller values underflow to 0.
Exp2Neg(k) == IF k <= ExpBits THEN 2 ^ (ExpBits - k) ELSE 0

\* 2*cos(m*pi/6), for the multiples of 30 degrees whose cosine is a half-integer.
TwoCos(m) ==
  CASE m = 0 -> 2
    [] m = 2 -> 1
    [] m = 3 -> 0
    [] m = 4 -> -1
    [] m = 6 -> -2

\* AEV._cutoff_cosine, in quarters: 0.5*cos(pi*d/Rc) + 0.5 for d <= Rc, else 0.
cutoff_cosine(d, cutoff) ==
  IF d <= cutoff THEN TwoCos((6 * d) \div cutoff) + 2 ELSE 0

per_species_radial_length(eng) ==
  Len(eng.constants.EtaR) * Len(eng.constants.ShfR)

per_species_angular_length(eng) ==
  Len(eng.constants.EtaA) * Len(eng.constants.Zeta)
    * Len(eng.constants.ShfA) * Len(eng.constants.ShfZ)

zeros(n) == tensor([k \in 1..n |-> 0])


\* ------------------------------------------------------------- sub-AEVs
\* radial_subaev: center (conformations, 3), neighbors (conformations, N, 3);
\* returns (conformations, per_species_radial_length), entry (EtaR, ShfR) at
\* its row-major position.
radial_subaev(eng, center, neighbors) ==
  LET K == eng.constants
      nShf == Len(K.ShfR)
      distances == tensor([n \in DOMAIN neighbors |->
                      tensor([j \in DOMAIN neighbors[n] |->
                                Norm(Sub(neighbors[n][j], center[n]))])])
      ret(d, e, s) ==
        Mul(Exp2Neg(K.EtaR[e] * (d - K.ShfR[s]) ^ 2), cutoff_cosine(d, K.Rcr))
  IN  tensor([n \in DOMAIN neighbors |->
        tensor([f \in 1..per_species_radial_length(eng) |->
          SumSeq(tensor([j \in DOMAIN neighbors[n] |->
                    ret(distances[n][j], ((f - 1) \div nShf) + 1, ((f - 1) % nShf) + 1)]))])])

\* ((1 + cos(angle - shift)) / 2) ^ zeta in units of 1000^-zeta, where
\* angle = acos(0.95 * inner / prods) and shift is 0 or pi; 0/0 is NaN.
AngleFactor(inner, prods, shift, zeta) ==
  IF prods = 0 THEN NaN
  ELSE LET cos_angles == (950 * inner) \div prods
       IN  ((1000 + (IF shift = 0 THEN cos_angles ELSE 0 - cos_angles)) \div 2) ^ zeta

\* angular_subaev: center (conformations, 3), neighbors (conformations, N, 2, 3);
\* returns (conformations, per_species_angular_length), entry
\* (EtaA, Zeta, ShfA, ShfZ) at its row-major position.
angular_subaev(eng, center, neighbors) ==
  LET K == eng.constants
      nZ == Len(K.Zeta)
      nA == Len(K.ShfA)
      nS == Len(K.ShfZ)
      Rij_vec == tensor([n \in DOMAIN neighbors |->
                   tensor([k \in DOMAIN neighbors[n] |->
                             <<Sub(neighbors[n][k][1], center[n]),
                               Sub(neighbors[n][k][2], center[n])>>])])
      Rij == tensor([n \in DOMAIN neighbors |->
               tensor([k \in DOMAIN neighbors[n] |->
                         <<Norm(Rij_vec[n][k][1]), Norm(Rij_vec[n][k][2])>>])])
      ret(n, k, e, z, a, s) ==
        LET Rijk_distance_prods == Rij[n][k][1] * Rij[n][k][2]
            Rijk_inner_prods == Dot(Rij_vec[n][k][1], Rij_vec[n][k][2])
        IN  Mul(Mul(Mul(Mul(2, AngleFactor(Rijk_inner_prods, Rijk_distance_prods,
                                            K.ShfZ[s], K.Zeta[z])),
                        Exp2Neg((K.EtaA[e] * (Rij[n][k][1] + Rij[n][k][2]
                                                - 2 * K.ShfA[a]) ^ 2) \div 4)),
                    cutoff_cosine(Rij[n][k][1], K.Rca)),
                cutoff_cosine(Rij[n][k][2], K.Rca))
  IN  tensor([n \in DOMAIN neighbors |->
        tensor([f \in 1..per_species_angular_length(eng) |->
          SumSeq(tensor([k \in DOMAIN neighbors[n] |->
                    ret(n, k, ((f - 1) \div (nZ * nA * nS)) + 1,
                              (((f - 1) \div (nA * nS)) % nZ) + 1,
                              (((f - 1) \div nS) % nA) + 1,
                              ((f - 1) % nS) + 1)]))])])

\* ------------------------------------------------------- list utilities
\* tensor.nonzero().view(-1): the positions of the non-zero entries, ascending.
RECURSIVE nonzero_from(_, _)
nonzero_from(row, k) ==
  IF k > Len(row) THEN <<>>
  ELSE (IF row[k] # 0 THEN <<k>> ELSE <<>>) \o nonzero_from(row, k + 1)

nonzero(row) == nonzero_from(row, 1)

\* coordinates.index_select(1, indices)
index_select(coords, indices) ==
  tensor([n \in DOMAIN coords |-> tensor([k \in DOMAIN indices |-> coords[n][indices[k]]])])

\* coordinates[:, i, :]
center_of(coords, i) == tensor([n \in DOMAIN coords |-> coords[n][i]])

\* _utils.combinations(t, 2): the 2-element combinations, lexicographic.
RECURSIVE combinations(_)
combinations(s) ==
  IF Len(s) < 2 THEN <<>>
  ELSE [k \in 1..(Len(s) - 1) |-> <<s[1], s[k + 1]>>] \o combinations(Tail(s))

\* _utils.cartesian_prod(s, t): every element of s with every element of t.
cartesian_prod(s, t) ==
  tensor([k \in 1..(Len(s) * Len(t)) |->
            <<s[((k - 1) \div Len(t)) + 1], t[((k - 1) % Len(t)) + 1]>>])

\* itertools.combinations_with_replacement(s, 2)
RECURSIVE combinations_with_replacement(_)
combinations_with_replacement(s) ==
  IF s = <<>> THEN <<>>
  ELSE [k \in 1..Len(s) |-> <<s[1], s[k]>>] \o combinations_with_replacement(Tail(s))

\* torch.cat(blocks, dim=1) of blocks shaped (conformations, *)
RECURSIVE cat(_, _)
cat(blocks, n) ==
  IF blocks = <<>> THEN <<>> ELSE Head(blocks)[n] \o cat(Tail(blocks), n)

\* Faulty variant of zero_block: the block that is all zero is not appended at all.
zero_block_missing(conformations, length) == tensor([n \in 1..conformations |-> <<>>])

\* torch.zeros(conformations, length)
zero_block(conformations, length) == tensor([n \in 1..conformations |-> zeros(length)])


\* ------------------------------------------------- the stages of __call__
\* lines 137-143: |Rij| of every conformation n at (n, i, j)
distances_of(coords) ==
  tensor([n \in DOMAIN coords |->
    tensor([i \in DOMAIN coords[n] |->
      tensor([j \in DOMAIN coords[n] |-> Norm(Sub(coords[n][j], coords[n][i]))])])])

\* torch.eye(atoms)
eye(i, j) == IF i = j THEN 1 ELSE 0

\* Faulty variant of in_cutoff: j is a neighbor of i only when it is within the cutoff
\* in every conformation of the batch.
in_cutoff_every(R, atoms, cutoff) ==
  tensor([i \in 1..atoms |->
    tensor([j \in 1..atoms |->
      (IF SumSeq(tensor([n \in DOMAIN R |-> IF R[n][i][j] <= cutoff THEN 1 ELSE 0])) = Len(R)
         THEN 1 ELSE 0) * (1 - eye(i, j))])])

\* lines 153-156 (and 157-160): (atoms, atoms), 1 at (i, j) when j is a
\* neighbor of i
in_cutoff(R, atoms, cutoff) ==
  tensor([i \in 1..atoms |->
    tensor([j \in 1..atoms |->
      (IF SumSeq(tensor([n \in DOMAIN R |-> IF R[n][i][j] <= cutoff THEN 1 ELSE 0])) > 0
         THEN 1 ELSE 0) * (1 - eye(i, j))])])

\* lines 166-171: the keys of species_selectors, in insertion order
RECURSIVE selector_keys(_, _)
selector_keys(sp, i) ==
  IF i = 0 THEN <<>>
  ELSE LET ks == selector_keys(sp, i - 1)
       IN  IF \E k \in DOMAIN ks : ks[k] = sp[i] THEN ks ELSE Append(ks, sp[i])

\* lines 166-171: the selector of species s
species_selector(sp, atoms, s) == tensor([j \in 1..atoms |-> IF sp[j] = s THEN 1 ELSE 0])

\* Faulty variant of build_species_neighbors: the neighbor lists are not multiplied by
\* the species selector.
build_species_neighbors_unmasked(sp, atoms, rcr, rca) ==
  LET ks == selector_keys(sp, atoms)
  IN  [keys    |-> ks,
       radial  |-> tensor([k \in DOMAIN ks |-> rcr]),
       angular |-> tensor([k \in DOMAIN ks |-> rca])]

\* lines 177-180: for every key, (in_Rcr * selector, in_Rca * selector)
build_species_neighbors(sp, atoms, rcr, rca) ==
  LET ks == selector_keys(sp, atoms)
      masked(m, s) ==
        LET selector == species_selector(sp, atoms, s)
        IN  tensor([i \in 1..atoms |-> tensor([j \in 1..atoms |-> m[i][j] * selector[j]])])
  IN  [keys    |-> ks,
       radial  |-> tensor([k \in DOMAIN ks |-> masked(rcr, ks[k])]),
       angular |-> tensor([k \in DOMAIN ks |-> masked(rca, ks[k])])]

\* `s in species_neighbors`
has_key(sn, s) == \E k \in DOMAIN sn.keys : sn.keys[k] = s

key_index(sn, s) == CHOOSE k \in DOMAIN sn.keys : sn.keys[k] = s

\* Faulty variant of radial_loop: the blocks follow the keys of species_neighbors, the
\* species of the input in the order of their first occurrence.
radial_loop_keys(eng, sn) == sn.keys

\* line 188: the species the radial blocks are appended for, in order
radial_loop(eng, sn) == eng.species

\* lines 190-191: the neighbors summed in the radial block of atom i, species s
radial_neighbor_indices(sn, i, s) ==
  IF has_key(sn, s) THEN nonzero(sn.radial[key_index(sn, s)][i]) ELSE <<>>

\* lines 192-202: the block appended for atom i, whose neighbors of the
\* species are `indices`
radial_block(eng, coords, sn, indices, i) ==
  IF Len(indices) > 0
    THEN radial_subaev(eng, center_of(coords, i), index_select(coords, indices))
    ELSE zero_block(Len(coords), per_species_radial_length(eng))

\* lines 183-205
compute_radial(eng, coords, sn) ==
  LET atoms == Len(coords[1])
      loop == radial_loop(eng, sn)
      indices == tensor([i \in 1..atoms |->
                   tensor([p \in DOMAIN loop |-> radial_neighbor_indices(sn, i, loop[p])])])
      radial_aev(i) == tensor([p \in DOMAIN loop |->
                                radial_block(eng, coords, sn, indices[i][p], i)])
      radial_aevs_list == tensor([i \in 1..atoms |-> radial_aev(i)])
  IN  [aevs    |-> tensor([n \in DOMAIN coords |->
                     tensor([i \in 1..atoms |-> cat(radial_aevs_list[i], n)])]),
       indices |-> indices]

\* Faulty variant of angular_loop: the pairs are those of the keys of species_neighbors.
angular_loop_keys(eng, sn) == combinations_with_replacement(sn.keys)

\* line 213: the species pairs the angular blocks are appended for, in order
angular_loop(eng, sn) == combinations_with_replacement(eng.species)

\* Faulty variant of neighbor_pair_indices: the cartesian product is taken for a
\* repeated species too.
neighbor_pair_indices_product(sn, i, j, k) ==
  IF has_key(sn, j) /\ has_key(sn, k)
    THEN LET indices_j == nonzero(sn.angular[key_index(sn, j)][i])
             indices_k == nonzero(sn.angular[key_index(sn, k)][i])
         IN  IF Len(indices_j) > 0 /\ Len(indices_k) > 0
               THEN cartesian_prod(indices_j, indices_k)
               ELSE <<>>
    ELSE <<>>

\* lines 215-232: the neighbor pairs summed in the angular block of atom i
\* and species pair (j, k); <<>> when is_zero
neighbor_pair_indices(sn, i, j, k) ==
  IF has_key(sn, j) /\ has_key(sn, k)
    THEN LET indices_j == nonzero(sn.angular[key_index(sn, j)][i])
         IN  IF j # k /\ Len(indices_j) > 0
               THEN LET indices_k == nonzero(sn.angular[key_index(sn, k)][i])
                    IN  IF Len(indices_k) > 0
                          THEN cartesian_prod(indices_j, indices_k)
                          ELSE <<>>
               ELSE IF Len(indices_j) > 1 THEN combinations(indices_j) ELSE <<>>
    ELSE <<>>

\* the coordinates of the atoms of each pair: (conformations, N, 2, 3)
pair_coordinates(coords, pairs) ==
  tensor([n \in DOMAIN coords |->
    tensor([k \in DOMAIN pairs |-> <<coords[n][pairs[k][1]], coords[n][pairs[k][2]]>>])])

\* lines 233-240: the block appended for atom i, whose neighbor pairs of the
\* species pair are `pairs`
angular_block(eng, coords, sn, pairs, i) ==
  IF pairs # <<>>
    THEN angular_subaev(eng, center_of(coords, i), pair_coordinates(coords, pairs))
    ELSE zero_block(Len(coords), per_species_angular_length(eng))

\* lines 208-243
compute_angular(eng, coords, sn) ==
  LET atoms == Len(coords[1])
      loop == angular_loop(eng, sn)
      pairs == tensor([i \in 1..atoms |->
                 tensor([p \in DOMAIN loop |->
                           neighbor_pair_indices(sn, i, loop[p][1], loop[p][2])])])
      angular_aev(i) == tensor([p \in DOMAIN loop |->
                                 angular_block(eng, coords, sn, pairs[i][p], i)])
      angular_aevs_list == tensor([i \in 1..atoms |-> angular_aev(i)])
  IN  [aevs  |-> tensor([n \in DOMAIN coords |->
                   tensor([i \in 1..atoms |-> cat(angular_aevs_list[i], n)])]),
       pairs |-> pairs]

\* ------------------------------------------------------------- actions
Atoms(c) == Len(coordinates[c][1])

Conformations(c) == Len(coordinates[c])

\* lines 134-160
Neighbors(c) ==
  /\ pc[c] = "start"
  /\ LET R == distances_of(coordinates[c])
     IN  /\ R_distances' = [R_distances EXCEPT ![c] = R]
         /\ in_Rcr' = [in_Rcr EXCEPT ![c] = in_cutoff(R, Atoms(c), self.constants.Rcr)]
         /\ in_Rca' = [in_Rca EXCEPT ![c] = in_cutoff(R, Atoms(c), self.constants.Rca)]
  /\ pc' = [pc EXCEPT ![c] = "selectors"]
  /\ UNCHANGED <<self, coordinates, species, species_neighbors, radial_aevs,
                 radial_indices, angular_aevs, neighbor_pairs, result, sub>>

\* Faulty variant of Selectors: the neighbor lists are kept in one place shared by
\* every call on the engine.
Selectors_shared(c) ==
  /\ pc[c] = "selectors"
  /\ \/ /\ Len(species[c]) < Atoms(c)
        /\ pc' = [pc EXCEPT ![c] = "raised"]
        /\ UNCHANGED species_neighbors
     \/ /\ Len(species[c]) >= Atoms(c)
        /\ species_neighbors' =
             [d \in Calls |->
                build_species_neighbors(species[c], Atoms(c), in_Rcr[c], in_Rca[c])]
        /\ pc' = [pc EXCEPT ![c] = "radial"]
  /\ UNCHANGED <<self, coordinates, species, R_distances, in_Rcr, in_Rca, radial_aevs,
                 radial_indices, angular_aevs, neighbor_pairs, result, sub>>

\* lines 166-180; species[i] raises IndexError when the sequence is too short
Selectors(c) ==
  /\ pc[c] = "selectors"
  /\ \/ /\ Len(species[c]) < Atoms(c)
        /\ pc' = [pc EXCEPT ![c] = "raised"]
        /\ UNCHANGED species_neighbors
     \/ /\ Len(species[c]) >= Atoms(c)
        /\ species_neighbors' =
             [species_neighbors EXCEPT
                ![c] = build_species_neighbors(species[c], Atoms(c), in_Rcr[c], in_Rca[c])]
        /\ pc' = [pc EXCEPT ![c] = "radial"]
  /\ UNCHANGED <<self, coordinates, species, R_distances, in_Rcr, in_Rca, radial_aevs,
                 radial_indices, angular_aevs, neighbor_pairs, result, sub>>

\* lines 183-205
Radial(c) ==
  /\ pc[c] = "radial"
  /\ LET r == compute_radial(self, coordinates[c], species_neighbors[c])
     IN  /\ radial_aevs' = [radial_aevs EXCEPT ![c] = r.aevs]
         /\ radial_indices' = [radial_indices EXCEPT ![c] = r.indices]
  /\ pc' = [pc EXCEPT ![c] = "angular"]
  /\ UNCHANGED <<self, coordinates, species, R_distances, in_Rcr, in_Rca,
                 species_neighbors, angular_aevs, neighbor_pairs, result, sub>>

\* lines 208-245
Angular(c) ==
  /\ pc[c] = "angular"
  /\ LET a == compute_angular(self, coordinates[c], species_neighbors[c])
     IN  /\ angular_aevs' = [angular_aevs EXCEPT ![c] = a.aevs]
         /\ neighbor_pairs' = [neighbor_pairs EXCEPT ![c] = a.pairs]
         /\ result' = [result EXCEPT ![c] = <<radial_aevs[c], a.aevs>>]
  /\ pc' = [pc EXCEPT ![c] = "done"]
  /\ UNCHANGED <<self, coordinates, species, R_distances, in_Rcr, in_Rca,
                 species_neighbors, radial_aevs, radial_indices, sub>>

\* lines 15-60: radial_subaev called on the arguments held in sub
RadialSub ==
  /\ sub.kind = "radial" /\ sub.ret = <<>>
  /\ sub' = [sub EXCEPT !.ret = radial_subaev(self, sub.center, sub.neighbors)]
  /\ UNCHANGED <<self, pc, coordinates, species, R_distances, in_Rcr, in_Rca,
                 species_neighbors, radial_aevs, radial_indices, angular_aevs,
                 neighbor_pairs, result>>

\* lines 62-130: angular_subaev called on the arguments held in sub
AngularSub ==
  /\ sub.kind = "angular" /\ sub.ret = <<>>
  /\ sub' = [sub EXCEPT !.ret = angular_subaev(self, sub.center, sub.neighbors)]
  /\ UNCHANGED <<self, pc, coordinates, species, R_distances, in_Rcr, in_Rca,
                 species_neighbors, radial_aevs, radial_indices, angular_aevs,
                 neighbor_pairs, result>>

Next == \E c \in Calls : Neighbors(c) \/ Selectors(c) \/ Radial(c) \/ Angular(c)

\* ------------------------------------------------------- initial states
Vec(x) == <<x, 0, 0>>

\* One conformation, atoms in non-decreasing position from the origin.
SortedConf(A) ==
  {f \in [1..A -> Positions] : f[1] = 0 /\ \A k \in 1..(A - 1) : f[k] <= f[k + 1]}

\* A batch: conformation 1 is base; in conformation n > 1 the last atom has
\* moved to position p + n - 2 (around the lattice).
Batch(A, B, base, p) ==
  [n \in 1..B |->
    [i \in 1..A |->
      Vec(IF n > 1 /\ i = A THEN (p + n - 2) % Cardinality(Positions) ELSE base[i])]]

Empty == [c \in Calls |-> <<>>]

NoNeighbors == [keys |-> <<>>, radial |-> <<>>, angular |-> <<>>]

NoSub == [kind |-> "none", center |-> <<>>, neighbors |-> <<>>, ret |-> <<>>]

\* The calls of `active` are about to run on inputs[c] = <<coordinates, species>>.
Setup(active, inputs) ==
  /\ self = Engine
  /\ pc = [c \in Calls |-> IF c \in active THEN "start" ELSE "idle"]
  /\ coordinates = [c \in Calls |-> IF c \in active THEN inputs[c][1] ELSE <<>>]
  /\ species = [c \in Calls |-> IF c \in active THEN inputs[c][2] ELSE <<>>]
  /\ R_distances = Empty
  /\ in_Rcr = Empty
  /\ in_Rca = Empty
  /\ species_neighbors = [c \in Calls |-> NoNeighbors]
  /\ radial_aevs = Empty
  /\ radial_indices = Empty
  /\ angular_aevs = Empty
  /\ neighbor_pairs = Empty
  /\ result = Empty

\* The species arguments tried with A atoms: every labelling of the atoms and,
\* on the single conformation of evenly spaced atoms, every sequence that is
\* one label short or one label too long.
SpeciesArgs(A, B, base) ==
  [1..A -> Labels]
    \cup (IF B = 1 /\ base = [i \in 1..A |-> i - 1]
            THEN [1..(A - 1) -> Labels] \cup [1..(A + 1) -> Labels]
            ELSE {})

\* One call, alone, on a single conformation or on a batch of MaxConf in which
\* the last atom moves onto the first one or out of every cutoff.
Init ==
  \E A \in 1..MaxAtoms, B \in {1, MaxConf} :
    \E base \in SortedConf(A), p \in (IF B = 1 THEN {0} ELSE {0, Engine.constants.Rcr + 1}) :
      \E sp \in SpeciesArgs(A, B, base) :
        /\ Setup({1}, [c \in Calls |-> <<Batch(A, B, base, p), sp>>])
        /\ sub = NoSub

Spec == Init /\ [][Next]_vars

\* The positions of the atoms of the pairs handed to angular_subaev.
PairPositions == 0..(Engine.constants.Rca + 1)

\* The arguments of the direct calls of the sub-AEV functions, one
\* conformation each: a center, and up to MaxAtoms neighbors or up to MaxPairs
\* neighbor pairs in any order.
SubInputs ==
  {[kind |-> "radial", center |-> <<Vec(x)>>, neighbors |-> <<[k \in 1..N |-> Vec(f[k])]>>,
    ret |-> <<>>] :
     <<x, N, f>> \in {xNf \in {0, 1} \X (0..MaxAtoms) \X UNION {[1..N -> Positions] : N \in 0..MaxAtoms} :
                       DOMAIN xNf[3] = 1..xNf[2]}}
  \cup
  {[kind |-> "angular", center |-> <<Vec(1)>>,
    neighbors |-> <<[k \in 1..Len(f) |-> <<Vec(f[k][1]), Vec(f[k][2])>>]>>,
    ret |-> <<>>] :
     f \in UNION {[1..N -> PairPositions \X PairPositions] : N \in 1..MaxPairs}}

\* No call of the engine runs; one of the sub-AEV functions is called directly.
InitSub ==
  /\ Setup({}, Empty)
  /\ \E s \in SubInputs : sub = s

NextSub == RadialSub \/ AngularSub

SpecSub == InitSub /\ [][NextSub]_vars

\* The inputs of the concurrent calls.
ConcInputs ==
  {<<Batch(3, 1, <<0, 1, 1>>, 0), <<"H", "H", "H">>>>,
   <<Batch(3, 1, <<0, 1, 2>>, 0), <<"C", "H", "H">>>>,
   <<Batch(3, 1, <<0, 1, 2>>, 0), <<"H", "X", "C">>>>,
   <<Batch(3, 1, <<0, 1, 2>>, 0), <<"H">>>>}

\* Every call runs, each on its own input, their steps interleaved.
InitConc ==
  /\ \E inputs \in [Calls -> ConcInputs] : Setup(Calls, inputs)
  /\ sub = NoSub

SpecConc == InitConc /\ [][Next]_vars

\* ------------------------------------------------------------- claims
\* What the claims speak of, stated from the arguments of the call alone.
Returned(c) == pc[c] = "done"

Running(c) == pc[c] \notin {"idle", "start"}

S == Len(self.species)

NumPairs == (S * (S + 1)) \div 2

\* The place of the species pair at vocabulary positions (p, q), p <= q, in
\* (1,1), (1,2), ..., (1,S), (2,2), ..., (S,S).
PairPos(p, q) == (p - 1) * S - (((p - 1) * (p - 2)) \div 2) + (q - p) + 1

\* The b-th block of length len of a row.
Block(row, b, len) == SubSeq(row, (b - 1) * len + 1, b * len)

\* Atoms i and j are at most cutoff apart in conformation n of call c.
Within(c, n, i, j, cutoff) ==
  LET v == Sub(coordinates[c][n][j], coordinates[c][n][i])
  IN  Dot(v, v) <= cutoff * cutoff

\* The neighbors of atom i that have species s, for a cutoff.
NeighborSet(c, i, s, cutoff) ==
  {j \in 1..Atoms(c) :
     /\ j # i
     /\ species[c][j] = s
     /\ \E n \in 1..Conformations(c) : Within(c, n, i, j, cutoff)}

RadialSet(c, i, p) == NeighborSet(c, i, self.species[p], self.constants.Rcr)

AngularSet(c, i, p) == NeighborSet(c, i, self.species[p], self.constants.Rca)

\* The elements of a sequence.
Range(s) == {s[k] : k \in DOMAIN s}

\* C1: a call whose species sequence names every atom returns a radial array
\* of shape (B, A, S * PerSpeciesRadialLength) and an angular array of shape
\* (B, A, C(S+1,2) * PerSpeciesAngularLength): one block per vocabulary
\* species and one per unordered species pair, whatever the neighbors.
OutputShape ==
  \A c \in Calls :
    (Returned(c) /\ Len(species[c]) = Atoms(c)) =>
      /\ Len(result[c]) = 2
      /\ Len(result[c][1]) = Conformations(c)
      /\ Len(result[c][2]) = Conformations(c)
      /\ \A n \in 1..Conformations(c) :
           /\ Len(result[c][1][n]) = Atoms(c)
           /\ Len(result[c][2][n]) = Atoms(c)
           /\ \A i \in 1..Atoms(c) :
                /\ Len(result[c][1][n][i]) = S * per_species_radial_length(self)
                /\ Len(result[c][2][n][i]) = NumPairs * per_species_angular_length(self)
      /\ \A i \in 1..Atoms(c) :
           /\ Len(radial_indices[c][i]) = S
           /\ Len(neighbor_pairs[c][i]) = NumPairs

\* C1 witness: a returned batch in which one atom has no neighbor of one
\* species and several of another, and another atom has exactly one.
OutputShapeWitness ==
  \E c \in Calls :
    /\ Returned(c) /\ Len(species[c]) = Atoms(c) /\ Conformations(c) > 1
    /\ \E i, k \in 1..Atoms(c) : \E p, q \in 1..S :
         /\ Cardinality(RadialSet(c, i, p)) = 0
         /\ Cardinality(RadialSet(c, i, q)) >= 2
         /\ Cardinality(RadialSet(c, k, q)) = 1

\* C3: zero-fill law.  A call whose species sequence names every atom does
\* not fail; the radial block of atom i for a species of which i has no radial
\* neighbor is all zero, and so is the angular block for a species pair of
\* which i has no neighbor pair (fewer than two angular neighbors of the
\* species when the pair repeats it, none of either species otherwise).
ZeroFill ==
  \A c \in Calls :
    /\ (pc[c] # "idle" /\ Len(species[c]) = Atoms(c)) => pc[c] # "raised"
    /\ (Returned(c) /\ Len(species[c]) = Atoms(c)) =>
         \A n \in 1..Conformations(c), i \in 1..Atoms(c) :
           /\ \A p \in 1..S :
                RadialSet(c, i, p) = {} =>
                  Block(result[c][1][n][i], p, per_species_radial_length(self))
                    = [k \in 1..per_species_radial_length(self) |-> 0]
           /\ \A p \in 1..S, q \in 1..S :
                (/\ p <= q
                 /\ IF p = q THEN Cardinality(AngularSet(c, i, p)) < 2
                    ELSE AngularSet(c, i, p) = {} \/ AngularSet(c, i, q) = {}) =>
                  Block(result[c][2][n][i], PairPos(p, q), per_species_angular_length(self))
                    = [k \in 1..per_species_angular_length(self) |-> 0]

\* C3 witness: a returned call in which a vocabulary species is absent from
\* the input, and an atom has exactly one angular neighbor of a species while
\* another block of the same atom is not zero.
ZeroFillWitness ==
  \E c \in Calls :
    /\ Returned(c) /\ Len(species[c]) = Atoms(c)
    /\ \E p \in 1..S : \A j \in 1..Atoms(c) : species[c][j] # self.species[p]
    /\ \E i \in 1..Atoms(c), q \in 1..S :
         /\ Cardinality(AngularSet(c, i, q)) = 1
         /\ \E n \in 1..Conformations(c) :
              \E k \in DOMAIN result[c][1][n][i] : result[c][1][n][i][k] > 0

\* The neighbors of atom i of any vocabulary species, for the angular cutoff.
AngularNeighbors(c, i) == UNION {AngularSet(c, i, p) : p \in 1..S}

\* The atoms that occur in the neighbor pairs of atom i.
PairedAtoms(c, i) ==
  UNION {UNION {{pair[1], pair[2]} : pair \in Range(neighbor_pairs[c][i][b])} :
           b \in DOMAIN neighbor_pairs[c][i]}

\* C7: for each cutoff, j is a neighbor of i exactly when i # j and the two
\* are at most the cutoff apart in at least one conformation of the batch; the
\* diagonal is never a neighbor; the radial blocks sum the neighbors of the
\* Rcr relation and the angular blocks pair the neighbors of the Rca relation.
NeighborSelection ==
  \A c \in Calls :
    /\ (Running(c) /\ pc[c] # "raised") =>
         \A i \in 1..Atoms(c), j \in 1..Atoms(c) :
           /\ in_Rcr[c][i][j] \in {0, 1}
           /\ in_Rca[c][i][j] \in {0, 1}
           /\ in_Rcr[c][i][j] = 1 <=>
                (i # j /\ \E n \in 1..Conformations(c) :
                            Within(c, n, i, j, self.constants.Rcr))
           /\ in_Rca[c][i][j] = 1 <=>
                (i # j /\ \E n \in 1..Conformations(c) :
                            Within(c, n, i, j, self.constants.Rca))
    /\ (Returned(c) /\ Len(species[c]) = Atoms(c)) =>
         \A i \in 1..Atoms(c) :
           /\ \A p \in 1..S : Range(radial_indices[c][i][p]) = RadialSet(c, i, p)
           /\ PairedAtoms(c, i) =
                (IF Cardinality(AngularNeighbors(c, i)) >= 2
                   THEN AngularNeighbors(c, i) ELSE {})

\* C7 witness: a returned batch in which an atom is a radial neighbor of
\* another in one conformation only and not an angular neighbor of it, while
\* it is in an angular neighbor pair of a third atom.
NeighborSelectionWitness ==
  \E c \in Calls :
    /\ Returned(c) /\ Len(species[c]) = Atoms(c) /\ Conformations(c) > 1
    /\ \E i \in 1..Atoms(c), j \in 1..Atoms(c) :
         /\ in_Rcr[c][i][j] = 1
         /\ in_Rca[c][i][j] = 0
         /\ \E n \in 1..Conformations(c) : ~Within(c, n, i, j, self.constants.Rcr)
         /\ \E k \in 1..Atoms(c) : j \in PairedAtoms(c, k)

\* The unordered pairs of a pair list.
Unordered(pairs) == {{pairs[k][1], pairs[k][2]} : k \in DOMAIN pairs}

\* C8: for every atom i and every unordered species pair, enumerated once, the
\* neighbor pairs of the block are the 2-element subsets of the angular
\* neighbors of the species when the pair repeats it, and the cartesian product
\* of the two neighbor sets otherwise; no pair holds an atom twice or the
\* atom i; every unordered pair of distinct angular neighbors of vocabulary
\* species is in exactly one block, once.
PairGeneration ==
  \A c \in Calls :
    (Returned(c) /\ Len(species[c]) = Atoms(c)) =>
      \A i \in 1..Atoms(c) :
        /\ Len(neighbor_pairs[c][i]) = NumPairs
        /\ \A p \in 1..S, q \in 1..S :
             p <= q =>
               LET pairs == neighbor_pairs[c][i][PairPos(p, q)]
                   Nj == AngularSet(c, i, p)
                   Nk == AngularSet(c, i, q)
               IN  /\ \A k \in DOMAIN pairs :
                        pairs[k][1] # pairs[k][2] /\ pairs[k][1] # i /\ pairs[k][2] # i
                   /\ IF p = q
                        THEN /\ Len(pairs) = (Cardinality(Nj) * (Cardinality(Nj) - 1)) \div 2
                             /\ Unordered(pairs) = {{a, b} : <<a, b>> \in {ab \in Nj \X Nj : ab[1] # ab[2]}}
                        ELSE /\ Len(pairs) = Cardinality(Nj) * Cardinality(Nk)
                             /\ Range(pairs) = Nj \X Nk
        /\ \A a \in AngularNeighbors(c, i), b \in AngularNeighbors(c, i) :
             a # b =>
               Cardinality({bk \in (1..NumPairs) \X (1..(Atoms(c) * Atoms(c))) :
                              /\ bk[2] \in DOMAIN neighbor_pairs[c][i][bk[1]]
                              /\ {neighbor_pairs[c][i][bk[1]][bk[2]][1],
                                  neighbor_pairs[c][i][bk[1]][bk[2]][2]} = {a, b}}) = 1

\* C8 witness: a returned call in which one atom has a pair of two neighbors
\* of one species and another atom a pair of neighbors of two species.
PairGenerationWitness ==
  \E c \in Calls :
    /\ Returned(c) /\ Len(species[c]) = Atoms(c)
    /\ \E i \in 1..Atoms(c), p \in 1..S : Len(neighbor_pairs[c][i][PairPos(p, p)]) >= 1
    /\ \E i \in 1..Atoms(c), p \in 1..S, q \in 1..S :
         p < q /\ Len(neighbor_pairs[c][i][PairPos(p, q)]) >= 1

\* The atoms whose label is not in the vocabulary.
Unknown(c) == {u \in 1..Atoms(c) : species[c][u] \notin Range(self.species)}

\* A neighbor relation in which the atoms of U are neighbors of no atom.
Hide(m, U) == [i \in DOMAIN m |-> [j \in DOMAIN m[i] |-> IF j \in U THEN 0 ELSE m[i][j]]]

\* C9: a call with atoms whose label is not in the vocabulary does not fail;
\* such an atom is in no radial neighbor list and in no angular neighbor pair
\* of any atom, and the blocks of all atoms are those computed with the atom a
\* neighbor of no one.
UnknownSpecies ==
  \A c \in Calls :
    (pc[c] # "idle" /\ Len(species[c]) = Atoms(c) /\ Unknown(c) # {}) =>
      /\ pc[c] # "raised"
      /\ Returned(c) =>
           /\ \A i \in 1..Atoms(c), u \in Unknown(c) :
                /\ u \notin PairedAtoms(c, i)
                /\ \A p \in DOMAIN radial_indices[c][i] : u \notin Range(radial_indices[c][i][p])
           /\ LET hidden == build_species_neighbors(species[c], Atoms(c),
                                                    Hide(in_Rcr[c], Unknown(c)),
                                                    Hide(in_Rca[c], Unknown(c)))
              IN  /\ result[c][1] = compute_radial(self, coordinates[c], hidden).aevs
                  /\ result[c][2] = compute_angular(self, coordinates[c], hidden).aevs

\* C9 witness: a returned call whose first atom has a label outside the
\* vocabulary and is, together with an atom of a vocabulary species, within
\* the angular cutoff of a third atom.
UnknownSpeciesWitness ==
  \E c \in Calls :
    /\ Returned(c) /\ Len(species[c]) = Atoms(c)
    /\ 1 \in Unknown(c)
    /\ \E i \in 1..Atoms(c), k \in 1..Atoms(c) :
         /\ k \notin Unknown(c)
         /\ in_Rca[c][i][1] = 1 /\ in_Rca[c][i][k] = 1
         /\ \E x \in DOMAIN result[c][1][1][i] : result[c][1][1][i][x] > 0

\* The elements of a finite set as a sequence.
RECURSIVE SeqOf(_)
SeqOf(set) ==
  IF set = {} THEN <<>>
  ELSE LET x == CHOOSE y \in set : TRUE IN <<x>> \o SeqOf(set \ {x})

\* The radial block of atom i for the species at vocabulary position p, from
\* the arguments: the sum over the radial neighbors of that species.
ExpectedRadial(c, i, p) ==
  IF RadialSet(c, i, p) = {}
    THEN [n \in 1..Conformations(c) |-> [k \in 1..per_species_radial_length(self) |-> 0]]
    ELSE radial_subaev(self, center_of(coordinates[c], i),
                       index_select(coordinates[c], SeqOf(RadialSet(c, i, p))))

\* The angular block of atom i for the species at vocabulary positions (p, q),
\* from the arguments: the sum over the pairs of angular neighbors.
ExpectedAngular(c, i, p, q) ==
  LET Nj == AngularSet(c, i, p)
      Nk == AngularSet(c, i, q)
      pairs == IF p = q THEN {ab \in Nj \X Nj : ab[1] < ab[2]} ELSE Nj \X Nk
  IN  IF pairs = {}
        THEN [n \in 1..Conformations(c) |-> [k \in 1..per_species_angular_length(self) |-> 0]]
        ELSE angular_subaev(self, center_of(coordinates[c], i),
                            pair_coordinates(coordinates[c], SeqOf(pairs)))

\* C10: in every row, the radial block of the species at vocabulary position
\* p is the p-th block, and the angular block of the species pair at positions
\* (p, q), p <= q, is at the place of (p, q) in (1,1), (1,2), ..., (S,S),
\* whichever species occur in the input and in whatever order.
OutputLayout ==
  \A c \in Calls :
    (Returned(c) /\ Len(species[c]) = Atoms(c)) =>
      \A n \in 1..Conformations(c), i \in 1..Atoms(c) :
        /\ Len(result[c][1][n][i]) = S * per_species_radial_length(self)
        /\ Len(result[c][2][n][i]) = NumPairs * per_species_angular_length(self)
        /\ \A p \in 1..S :
             Block(result[c][1][n][i], p, per_species_radial_length(self))
               = ExpectedRadial(c, i, p)[n]
        /\ \A p \in 1..S, q \in 1..S :
             p <= q =>
               Block(result[c][2][n][i], PairPos(p, q), per_species_angular_length(self))
                 = ExpectedAngular(c, i, p, q)[n]

\* C10 witness: a returned call whose input names the second vocabulary
\* species first and the first one later, with one atom whose radial blocks
\* of the two species differ and are not zero.
OutputLayoutWitness ==
  \E c \in Calls :
    /\ Returned(c) /\ Len(species[c]) = Atoms(c) /\ S >= 2
    /\ species[c][1] = self.species[2]
    /\ \E j \in 2..Atoms(c) : species[c][j] = self.species[1]
    /\ \E i \in 1..Atoms(c) :
         LET row == result[c][1][1][i]
             first == Block(row, 1, per_species_radial_length(self))
             second == Block(row, 2, per_species_radial_length(self))
         IN  /\ first # second
             /\ \E k \in DOMAIN first : first[k] > 0
             /\ \E k \in DOMAIN second : second[k] > 0

\* lines 132-245: the call as a function of its arguments; <<>> when it raises
NeighborAEV_call(eng, coords, sp) ==
  LET atoms == Len(coords[1])
      R == distances_of(coords)
      sn == build_species_neighbors(sp, atoms,
                                    in_cutoff(R, atoms, eng.constants.Rcr),
                                    in_cutoff(R, atoms, eng.constants.Rca))
  IN  IF Len(sp) < atoms THEN <<>>
      ELSE <<compute_radial(eng, coords, sn).aevs, compute_angular(eng, coords, sn).aevs>>

\* C2: the rows of every conformation n of a batch are the rows of the call
\* on conformation n alone.
UnionEqualsExact ==
  \A c \in Calls :
    (Returned(c) /\ Len(species[c]) = Atoms(c)) =>
      \A n \in 1..Conformations(c) :
        LET alone == NeighborAEV_call(self, <<coordinates[c][n]>>, species[c])
        IN  /\ result[c][1][n] = alone[1][1]
            /\ result[c][2][n] = alone[2][1]

\* C4: a call whose species sequence is shorter or longer than the atom count
\* fails and returns nothing.
ShapeMismatchFails ==
  \A c \in Calls :
    (pc[c] # "idle" /\ Len(species[c]) # Atoms(c)) =>
      pc[c] # "done" /\ result[c] = <<>>

\* The list with the entries at k and k + 1 exchanged.
Transposed(list, k) ==
  [x \in DOMAIN list |-> IF x = k THEN list[k + 1] ELSE IF x = k + 1 THEN list[k] ELSE list[x]]

\* The list of pairs with the two atoms of pair k exchanged.
Flipped(list, k) ==
  [x \in DOMAIN list |-> IF x = k THEN <<list[k][2], list[k][1]>> ELSE list[x]]

\* C5: the calls never write the engine, and whatever the interleaving of
\* their steps, a call that returns returns the result of the call run alone
\* on its arguments, a call that raises is one that raises alone, and two
\* calls on the same arguments return the same result.
Stateless ==
  /\ self = Engine
  /\ \A c \in Calls :
       /\ pc[c] = "done" => result[c] = NeighborAEV_call(Engine, coordinates[c], species[c])
       /\ pc[c] = "raised" =>
            /\ result[c] = <<>>
            /\ NeighborAEV_call(Engine, coordinates[c], species[c]) = <<>>
  /\ \A c \in Calls, d \in Calls :
       (pc[c] = "done" /\ pc[d] = "done"
          /\ coordinates[c] = coordinates[d] /\ species[c] = species[d]) =>
         result[c] = result[d]

\* C5 witness: a call has returned while another call, on different
\* arguments, has built its neighbor lists and not yet used them.
StatelessWitness ==
  \E c \in Calls, d \in Calls :
    /\ pc[c] = "done" /\ pc[d] = "radial"
    /\ species_neighbors[c] # species_neighbors[d]
    /\ result[c] = NeighborAEV_call(Engine, coordinates[c], species[c])

\* C6: radial_subaev returns the same sub-AEV when two adjacent neighbors are
\* exchanged, and angular_subaev when two adjacent pairs are exchanged or the
\* two atoms of a pair are; every reordering is a sequence of such exchanges.
PermutationInvariance ==
  sub.ret # <<>> =>
    LET list == sub.neighbors[1]
    IN  /\ sub.kind = "radial" =>
             \A k \in 1..(Len(list) - 1) :
               radial_subaev(self, sub.center, <<Transposed(list, k)>>) = sub.ret
        /\ sub.kind = "angular" =>
             /\ \A k \in 1..(Len(list) - 1) :
                  angular_subaev(self, sub.center, <<Transposed(list, k)>>) = sub.ret
             /\ \A k \in 1..Len(list) :
                  angular_subaev(self, sub.center, <<Flipped(list, k)>>) = sub.ret

\* C6 witness: angular_subaev has returned a sub-AEV with a positive entry
\* for two different pairs, the first of two different atoms.
PermutationInvarianceWitness ==
  /\ sub.kind = "angular" /\ sub.ret # <<>>
  /\ Len(sub.neighbors[1]) >= 2
  /\ sub.neighbors[1][1] # sub.neighbors[1][2]
  /\ sub.neighbors[1][1][1] # sub.neighbors[1][1][2]
  /\ \E k \in DOMAIN sub.ret[1] : sub.ret[1][k] > 0

====
